---- MODULE Spec2Model ----
(***************************************************************************)
(* Model of src/package-thunderstore.py: the ThunderstorePackager class    *)
(* (create_manifest, prepare_package, create_package) and main().          *)
(*                                                                         *)
(* The file system is the shared state: the Output directory with its      *)
(* build archives, the source icon/readme files, the Thunderstore          *)
(* directory with its staging directories and final archives.  Every       *)
(* packaging run is a process p with a program counter; each action is one *)
(* library call (or one straight-line block) of the source.  A file's      *)
(* content is modelled by the tag [by, call] of the run and call that      *)
(* wrote it (by = 0: written before any modelled run).                      *)
(***************************************************************************)
EXTENDS Integers, Sequences, FiniteSets, TLC

VARIABLES
    outDirExists,      \* output_dir.exists()
    buildZips,         \* files of output_dir: name -> [ok, entries]
    srcFiles,          \* existing icon / readme source paths
    thunderDirExists,  \* thunderstore_dir.exists()
    staging,           \* directories of thunderstore_dir: name -> (relpath -> tag)
    archives,          \* zip files of thunderstore_dir: name -> (arcname -> tag)
    mode,              \* per run: "main" (started by main) or "api" (methods called directly)
    pc,                \* per run: position in the code
    args,              \* per run: argparse namespace (main) / constructor and call arguments
    self,              \* per run: the ThunderstorePackager fields
    manifest,          \* per run: the dict create_manifest returned
    loc,               \* per run: local variables of the running method
    callNo,            \* per run: number of prepare_package calls started
    exit,              \* per run: process exit status, -1 while running
    log                \* per run: the workflow steps executed (by the current call)

vars == <<outDirExists, buildZips, srcFiles, thunderDirExists, staging, archives,
          mode, pc, args, self, manifest, loc, callNo, exit, log>>

fsVars == <<outDirExists, buildZips, srcFiles, thunderDirExists, staging, archives>>

-----------------------------------------------------------------------------
(* Bounds of the model *)

\* prepare_package calls one directly-driven packager makes
MaxCalls == 2

\* longest description given to create_manifest
MaxDescLen == 253

\* the packaging runs: run 1 alone in the sequential specifications, runs 1 and 2
\* side by side in the concurrent one
Procs == {1, 2}

-----------------------------------------------------------------------------
(* Program constants *)

REQUIRED_FILES == <<"manifest.json", "icon.png", "README.md">>

\* the description limit of create_manifest
DescLimit == 250

\* the number of characters create_manifest keeps when truncating
DescKeep == 247

Ellipsis == "..."

\* argparse choices of --variant
VariantChoices == {"IL2CPP-BepInEx6", "UnityMono-BepInEx5", "UnityMono-BepInEx6"}

\* argparse default of --variant: a one-element list, not a string
VariantDefault == [list |-> TRUE, val |-> "IL2CPP-BepInEx6"]

VersionDefault == "2.1.0"

NameDefault == "MelonLoader_Loader"

NamespaceDefault == "BepInEx"

DescriptionDefault == "BepInEx loader plugin for running MelonLoader mods. Supports both Unity Mono and IL2CPP games."

WebsiteDefault == "https://github.com/BepInEx/BepInEx.MelonLoader.Loader"

DepsDefault == <<"BepInEx-BepInExPack_IL2CPP-6.0.733">>

\* Python's None for an optional path
None == "<None>"

IconDefaultPath == "icon.png"

ReadmeDefaultPath == "README.md"

-----------------------------------------------------------------------------
(* Helpers *)

EmptyFn == [x \in {} |-> 0]

Range(s) == {s[i] : i \in DOMAIN s}

Remove(f, k) == [x \in (DOMAIN f) \ {k} |-> f[x]]

\* f with key k bound to v (overwriting)
Put(f, k, v) == (k :> v) @@ f

\* the tag of a file written by run p in its current call
Tag(p) == [by |-> p, call |-> callNo[p]]

\* an f-string's rendering of a value: a str as itself, a one-element list of
\* str as its repr
Str(v) == IF v.list THEN "['" \o v.val \o "']" ELSE v.val

PlainStr(s) == [list |-> FALSE, val |-> s]

-----------------------------------------------------------------------------
(* ThunderstorePackager: pure parts *)

\* __init__ with the fault of one staging directory for every variant
PackagerSharedTemp(variant, version) ==
    [variant  |-> variant,
     version  |-> version,
     temp_dir |-> "temp"]

\* ThunderstorePackager.__init__
Packager(variant, version) ==
    [variant  |-> variant,
     version  |-> version,
     temp_dir |-> "temp_" \o Str(variant)]

\* the stored description with the fault of cutting at the limit, no ellipsis
StoredDescriptionCut(description) ==
    IF Len(description) > DescLimit
    THEN SubSeq(description, 1, DescLimit)
    ELSE description

\* the description create_manifest stores
StoredDescription(description) ==
    IF Len(description) > DescLimit
    THEN SubSeq(description, 1, DescKeep) \o Ellipsis
    ELSE description

\* ThunderstorePackager.create_manifest (namespace is accepted and not used)
create_manifest(version, name, description, website_url, dependencies, namespace) ==
    [name           |-> name,
     version_number |-> version,
     website_url    |-> website_url,
     description    |-> StoredDescription(description),
     dependencies   |-> dependencies]

\* the build archive prepare_package looks up in output_dir
BuildZipName(s) == "MLLoader-" \o Str(s.variant) \o "-v" \o s.version \o ".zip"

\* the name of the archive create_package writes into thunderstore_dir
OutputName(s) == "BepInEx-MelonLoader_Loader-" \o Str(s.variant) \o "-" \o s.version \o ".zip"

\* the missing list with the fault of stopping at the first missing file
MissingInFirst(d) ==
    LET all == SelectSeq(REQUIRED_FILES,
                         LAMBDA r : ~(d \in DOMAIN staging /\ r \in DOMAIN staging[d]))
    IN  IF all = <<>> THEN <<>> ELSE <<all[1]>>

\* the required files that do not exist in directory d, in REQUIRED_FILES order
MissingIn(d) ==
    SelectSeq(REQUIRED_FILES,
              LAMBDA r : ~(d \in DOMAIN staging /\ r \in DOMAIN staging[d]))

\* path.exists() of an optional source path
SrcExists(path) == path # None /\ path \in srcFiles

-----------------------------------------------------------------------------
(* Control transfer *)

NoLocals ==
    [icon_path |-> None, readme_path |-> None, package_dir |-> None,
     build_zip |-> None, missing |-> <<>>, output_path |-> None,
     raised |-> "none", handler |-> "none", ret |-> None, call |-> "none"]

\* the except clause of main that catches exception exc
Handler(exc) == IF exc = "FileNotFoundError" THEN "not_found" ELSE "unexpected"

\* An exception leaves the running method: main's try block catches it and
\* exits 1; a direct caller gets it.  l is the run's locals so far.
Raise(p, exc, l) ==
    IF mode[p] = "main"
    THEN /\ pc' = [pc EXCEPT ![p] = "exited"]
         /\ exit' = [exit EXCEPT ![p] = 1]
         /\ loc' = [loc EXCEPT ![p] = [l EXCEPT !.raised = exc, !.handler = Handler(exc)]]
    ELSE /\ pc' = [pc EXCEPT ![p] = "idle"]
         /\ exit' = exit
         /\ loc' = [loc EXCEPT ![p] = [l EXCEPT !.raised = exc]]

\* sys.exit(code): SystemExit is no Exception, so main's handlers let it through
SysExit(p, code, l) ==
    /\ pc' = [pc EXCEPT ![p] = "exited"]
    /\ exit' = [exit EXCEPT ![p] = code]
    /\ loc' = [loc EXCEPT ![p] = l]

\* the running method goes on at label next
Goto(p, next, l) ==
    /\ pc' = [pc EXCEPT ![p] = next]
    /\ exit' = exit
    /\ loc' = [loc EXCEPT ![p] = l]

Logged(p, step) == log' = [log EXCEPT ![p] = Append(@, step)]

\* A method returns value v: main goes on with its next statement, a direct
\* caller gets the value.
Return(p, v, l) ==
    IF mode[p] = "main"
    THEN IF l.call = "prepare"
         THEN Goto(p, "create_verify", [l EXCEPT !.package_dir = v, !.call = "create"])
         ELSE Goto(p, "main_success", [l EXCEPT !.ret = v])
    ELSE Goto(p, "idle", [l EXCEPT !.ret = v])

-----------------------------------------------------------------------------
(* ThunderstorePackager.prepare_package *)

\* the reset with the fault of not removing an existing staging directory
PrepRmtreeSkipped(p) ==
    /\ pc[p] = "prepare_rmtree"
    /\ Goto(p, "prepare_mkdir", loc[p])
    /\ Logged(p, "reset")
    /\ UNCHANGED <<fsVars, mode, args, self, manifest, callNo>>

\* if self.temp_dir.exists(): shutil.rmtree(self.temp_dir)
PrepRmtree(p) ==
    /\ pc[p] = "prepare_rmtree"
    /\ staging' = IF self[p].temp_dir \in DOMAIN staging
                  THEN Remove(staging, self[p].temp_dir)
                  ELSE staging
    /\ Goto(p, "prepare_mkdir", loc[p])
    /\ Logged(p, "reset")
    /\ UNCHANGED <<outDirExists, buildZips, srcFiles, thunderDirExists, archives,
                   mode, args, self, manifest, callNo>>

\* self.temp_dir.mkdir(parents=True)
PrepMkdir(p) ==
    /\ pc[p] = "prepare_mkdir"
    /\ IF self[p].temp_dir \in DOMAIN staging
       THEN /\ Raise(p, "FileExistsError", loc[p])
            /\ UNCHANGED <<staging, thunderDirExists>>
       ELSE /\ staging' = Put(staging, self[p].temp_dir, EmptyFn)
            /\ thunderDirExists' = TRUE
            /\ Goto(p, "prepare_manifest", loc[p])
    /\ UNCHANGED <<outDirExists, buildZips, srcFiles, archives,
                   mode, args, self, manifest, callNo, log>>

\* the file name written into self.temp_dir by run p, or FileNotFoundError
\* when the directory is gone
WriteStaged(p, name, next) ==
    IF self[p].temp_dir \in DOMAIN staging
    THEN /\ staging' = [staging EXCEPT ![self[p].temp_dir] = Put(@, name, Tag(p))]
         /\ Goto(p, next, loc[p])
    ELSE /\ Raise(p, "FileNotFoundError", loc[p])
         /\ UNCHANGED staging

\* open(manifest_path, 'w'); json.dump(manifest_data, f, ...)
PrepWriteManifest(p) ==
    /\ pc[p] = "prepare_manifest"
    /\ WriteStaged(p, "manifest.json", "prepare_icon")
    /\ Logged(p, "manifest")
    /\ UNCHANGED <<outDirExists, buildZips, srcFiles, thunderDirExists, archives,
                   mode, args, self, manifest, callNo>>

\* the icon is copied whether validate_icon accepts it or not
PrepCopyIcon(p) ==
    /\ pc[p] = "prepare_icon"
    /\ IF SrcExists(loc[p].icon_path)
       THEN WriteStaged(p, "icon.png", "prepare_readme")
       ELSE Goto(p, "prepare_readme", loc[p]) /\ UNCHANGED staging
    /\ Logged(p, "icon")
    /\ UNCHANGED <<outDirExists, buildZips, srcFiles, thunderDirExists, archives,
                   mode, args, self, manifest, callNo>>

\* the readme step with the fault of falling back to README.md beside the
\* script when no readme path is given
PrepCopyReadmeFallback(p) ==
    /\ pc[p] = "prepare_readme"
    /\ IF SrcExists(IF loc[p].readme_path = None THEN ReadmeDefaultPath
                    ELSE loc[p].readme_path)
       THEN WriteStaged(p, "README.md", "prepare_extract")
       ELSE Goto(p, "prepare_extract", loc[p]) /\ UNCHANGED staging
    /\ Logged(p, "readme")
    /\ UNCHANGED <<outDirExists, buildZips, srcFiles, thunderDirExists, archives,
                   mode, args, self, manifest, callNo>>

\* the readme is copied when a path is given and exists
PrepCopyReadme(p) ==
    /\ pc[p] = "prepare_readme"
    /\ IF SrcExists(loc[p].readme_path)
       THEN WriteStaged(p, "README.md", "prepare_extract")
       ELSE Goto(p, "prepare_extract", loc[p]) /\ UNCHANGED staging
    /\ Logged(p, "readme")
    /\ UNCHANGED <<outDirExists, buildZips, srcFiles, thunderDirExists, archives,
                   mode, args, self, manifest, callNo>>

\* zf.extractall(self.temp_dir): every entry is written, over an existing file
\* of the same name, and the directory is made when it is missing
Extracted(p, entries) ==
    LET dir == self[p].temp_dir
        old == IF dir \in DOMAIN staging THEN staging[dir] ELSE EmptyFn
    IN  Put(staging, dir, [n \in entries |-> Tag(p)] @@ old)

\* the extraction step with the fault of removing the staging directory when
\* the build archive is not found
PrepExtractCleansUp(p) ==
    /\ pc[p] = "prepare_extract"
    /\ LET build_zip == BuildZipName(self[p])
           l == [loc[p] EXCEPT !.build_zip = build_zip]
       IN  IF ~(outDirExists /\ build_zip \in DOMAIN buildZips)
           THEN /\ Raise(p, "FileNotFoundError", l)
                /\ staging' = Remove(staging, self[p].temp_dir)
                /\ UNCHANGED log
           ELSE IF ~buildZips[build_zip].ok
           THEN /\ Raise(p, "BadZipFile", l)
                /\ UNCHANGED <<staging, log>>
           ELSE /\ staging' = Extracted(p, buildZips[build_zip].entries)
                /\ Return(p, self[p].temp_dir, l)
                /\ Logged(p, "extract")
    /\ UNCHANGED <<outDirExists, buildZips, srcFiles, thunderDirExists, archives,
                   mode, args, self, manifest, callNo>>

\* build_zip lookup, zipfile.ZipFile(build_zip, 'r'), extractall, return
PrepExtract(p) ==
    /\ pc[p] = "prepare_extract"
    /\ LET build_zip == BuildZipName(self[p])
           l == [loc[p] EXCEPT !.build_zip = build_zip]
       IN  IF ~(outDirExists /\ build_zip \in DOMAIN buildZips)
           THEN /\ Raise(p, "FileNotFoundError", l)
                /\ UNCHANGED <<staging, log>>
           ELSE IF ~buildZips[build_zip].ok
           THEN /\ Raise(p, "BadZipFile", l)
                /\ UNCHANGED <<staging, log>>
           ELSE /\ staging' = Extracted(p, buildZips[build_zip].entries)
                /\ Return(p, self[p].temp_dir, l)
                /\ Logged(p, "extract")
    /\ UNCHANGED <<outDirExists, buildZips, srcFiles, thunderDirExists, archives,
                   mode, args, self, manifest, callNo>>

-----------------------------------------------------------------------------
(* ThunderstorePackager.create_package *)

\* the verification with the fault of reporting the missing files and going on
CreateVerifyGoesOn(p) ==
    /\ pc[p] = "create_verify"
    /\ Goto(p, "create_archive", [loc[p] EXCEPT !.missing = MissingIn(loc[p].package_dir)])
    /\ Logged(p, "verify")
    /\ UNCHANGED <<fsVars, mode, args, self, manifest, callNo>>

\* the REQUIRED_FILES loop and the sys.exit(1) on a non-empty missing list
CreateVerify(p) ==
    /\ pc[p] = "create_verify"
    /\ LET missing == MissingIn(loc[p].package_dir)
           l == [loc[p] EXCEPT !.missing = missing]
       IN  IF missing # <<>>
           THEN SysExit(p, 1, l)
           ELSE Goto(p, "create_archive", l)
    /\ Logged(p, "verify")
    /\ UNCHANGED <<fsVars, mode, args, self, manifest, callNo>>

\* the walk with the fault of listing the directory without descending
WalkTopLevel(package_dir) ==
    IF package_dir \in DOMAIN staging
    THEN [n \in DOMAIN staging[package_dir] \ {"plugins/x.dll"} |-> staging[package_dir][n]]
    ELSE EmptyFn

\* the files os.walk(package_dir) finds: every file under the directory, none
\* when the directory does not exist
Walk(package_dir) ==
    IF package_dir \in DOMAIN staging THEN staging[package_dir] ELSE EmptyFn

\* zipfile.ZipFile(output_path, 'w'), one zf.write per walked file
CreateArchive(p) ==
    /\ pc[p] = "create_archive"
    /\ LET output_path == OutputName(self[p])
           l == [loc[p] EXCEPT !.output_path = output_path]
       IN  IF ~thunderDirExists
           THEN /\ Raise(p, "FileNotFoundError", l)
                /\ UNCHANGED <<archives, log>>
           ELSE /\ archives' = Put(archives, output_path, Walk(loc[p].package_dir))
                /\ Goto(p, "create_cleanup", l)
                /\ Logged(p, "archive")
    /\ UNCHANGED <<outDirExists, buildZips, srcFiles, thunderDirExists, staging,
                   mode, args, self, manifest, callNo>>

\* shutil.rmtree(package_dir); return output_path
CreateCleanup(p) ==
    /\ pc[p] = "create_cleanup"
    /\ IF loc[p].package_dir \in DOMAIN staging
       THEN /\ staging' = Remove(staging, loc[p].package_dir)
            /\ Return(p, loc[p].output_path, loc[p])
            /\ Logged(p, "cleanup")
       ELSE /\ Raise(p, "FileNotFoundError", loc[p])
            /\ UNCHANGED <<staging, log>>
    /\ UNCHANGED <<outDirExists, buildZips, srcFiles, thunderDirExists, archives,
                   mode, args, self, manifest, callNo>>

-----------------------------------------------------------------------------
(* main *)

\* output_dir.exists() check after parse_args
MainCheckOutputDir(p) ==
    /\ pc[p] = "main"
    /\ IF ~outDirExists
       THEN SysExit(p, 1, loc[p])
       ELSE Goto(p, "main_setup", loc[p])
    /\ UNCHANGED <<fsVars, mode, args, self, manifest, callNo, log>>

\* thunderstore_dir.mkdir, the packager, the manifest, the icon and readme
\* paths, and the call of prepare_package
MainSetup(p) ==
    /\ pc[p] = "main_setup"
    /\ thunderDirExists' = TRUE
    /\ self' = [self EXCEPT ![p] = Packager(args[p].variant, args[p].version)]
    /\ manifest' = [manifest EXCEPT ![p] =
           create_manifest(args[p].version, args[p].name, args[p].description,
                           args[p].website, args[p].deps, args[p].namespace)]
    /\ callNo' = [callNo EXCEPT ![p] = @ + 1]
    /\ Goto(p, "prepare_rmtree",
            [loc[p] EXCEPT
               !.icon_path = IF args[p].icon # None THEN args[p].icon ELSE IconDefaultPath,
               !.readme_path = IF args[p].readme # None THEN args[p].readme
                               ELSE ReadmeDefaultPath,
               !.call = "prepare"])
    /\ UNCHANGED <<outDirExists, buildZips, srcFiles, staging, archives, mode, args, log>>

\* the success report (package_path.stat()) and the normal end of main
MainSuccess(p) ==
    /\ pc[p] = "main_success"
    /\ IF loc[p].ret \in DOMAIN archives
       THEN SysExit(p, 0, loc[p])
       ELSE Raise(p, "FileNotFoundError", loc[p])
    /\ UNCHANGED <<fsVars, mode, args, self, manifest, callNo, log>>

-----------------------------------------------------------------------------
(* Direct callers of the packager's methods *)

\* packager.prepare_package(manifest, icon_path, readme_path)
CallPrepare(p, icon_path, readme_path) ==
    /\ pc[p] = "idle"
    /\ callNo[p] < MaxCalls
    /\ callNo' = [callNo EXCEPT ![p] = @ + 1]
    /\ log' = [log EXCEPT ![p] = <<>>]
    /\ Goto(p, "prepare_rmtree",
            [NoLocals EXCEPT !.icon_path = icon_path, !.readme_path = readme_path,
                             !.call = "prepare"])
    /\ UNCHANGED <<fsVars, mode, args, self, manifest>>

\* packager.create_package(package_dir)
CallCreate(p, package_dir) ==
    /\ pc[p] = "idle"
    /\ log' = [log EXCEPT ![p] = <<>>]
    /\ Goto(p, "create_verify",
            [NoLocals EXCEPT !.package_dir = package_dir, !.call = "create"])
    /\ UNCHANGED <<fsVars, mode, args, self, manifest, callNo>>

NoManifest == [name |-> "", version_number |-> "", website_url |-> "",
               description |-> "", dependencies |-> <<>>]

\* packager.create_manifest(name, description, website_url, dependencies, namespace)
CallCreateManifest(p) ==
    /\ pc[p] = "fresh"
    /\ manifest' = [manifest EXCEPT ![p] =
           create_manifest(self[p].version, args[p].name, args[p].description,
                           args[p].website, args[p].deps, args[p].namespace)]
    /\ Goto(p, "idle", [loc[p] EXCEPT !.call = "manifest"])
    /\ UNCHANGED <<fsVars, mode, args, self, callNo, log>>

-----------------------------------------------------------------------------
(* The inputs the model draws from *)

\* what parse_args leaves in args.variant: a choice given on the command line,
\* or the default when the flag is omitted
VariantValues == {PlainStr(c) : c \in VariantChoices} \cup {VariantDefault}

Versions == {VersionDefault, "2.2.0"}

\* (namespace, name) pairs given on the command line
Identities ==
    {<<NamespaceDefault, NameDefault>>, <<"Team", NameDefault>>,
     <<NamespaceDefault, "Other_Pkg">>}

\* the icon / readme files that may exist beside the script
SourcePaths == {IconDefaultPath, ReadmeDefaultPath, "my-icon.png", "docs/TS.md"}

\* build archives: two well-formed ones and one that is no zip file
ZipContents ==
    {[ok |-> TRUE, entries |-> {"a.dll", "b.dll"}],
     [ok |-> TRUE, entries |-> {"icon.png", "README.md", "plugins/x.dll"}],
     [ok |-> FALSE, entries |-> {}]}

\* the file names a build of version VersionDefault can leave in output_dir
ZipNames == {BuildZipName(Packager(v, VersionDefault)) : v \in VariantValues}

\* output_dir holds no build archive or one
ZipStates(names) ==
    {EmptyFn} \cup {n :> c : n \in names, c \in ZipContents}

Old == [by |-> 0, call |-> 0]

\* a staging directory an earlier, failed run left behind
Leftover == [n \in {"manifest.json", "old.dll"} |-> Old]

MainArgs ==
    {[variant |-> v, version |-> ver, namespace |-> id[1], name |-> id[2],
      description |-> DescriptionDefault, website |-> WebsiteDefault,
      deps |-> DepsDefault, icon |-> icon, readme |-> readme] :
        v \in VariantValues, ver \in Versions, id \in Identities,
        icon \in {None, "my-icon.png"}, readme \in {None, "docs/TS.md"}}

NoSelf == [variant |-> PlainStr(""), version |-> "", temp_dir |-> ""]

Idle(a) == [p \in Procs |-> a]

-----------------------------------------------------------------------------
(* Spec: one run of main *)

Init ==
    \E a \in MainArgs, out \in BOOLEAN, th \in BOOLEAN, left \in BOOLEAN :
      /\ outDirExists = out
      /\ buildZips \in (IF out THEN ZipStates(ZipNames) ELSE {EmptyFn})
      /\ srcFiles \in SUBSET SourcePaths
      /\ thunderDirExists = (th \/ left)
      /\ staging = IF left THEN Packager(a.variant, a.version).temp_dir :> Leftover
                   ELSE EmptyFn
      /\ archives = EmptyFn
      /\ mode = Idle("main")
      /\ pc = [p \in Procs |-> IF p = 1 THEN "main" ELSE "off"]
      /\ args = Idle(a)
      /\ self = Idle(NoSelf)
      /\ manifest = Idle(NoManifest)
      /\ loc = Idle(NoLocals)
      /\ callNo = Idle(0)
      /\ exit = Idle(-1)
      /\ log = Idle(<<>>)

PrepareStep(p) ==
    \/ PrepRmtree(p)
    \/ PrepMkdir(p)
    \/ PrepWriteManifest(p)
    \/ PrepCopyIcon(p)
    \/ PrepCopyReadme(p)
    \/ PrepExtract(p)

CreateStep(p) ==
    \/ CreateVerify(p)
    \/ CreateArchive(p)
    \/ CreateCleanup(p)

MainStep(p) ==
    \/ MainCheckOutputDir(p)
    \/ MainSetup(p)
    \/ PrepareStep(p)
    \/ CreateStep(p)
    \/ MainSuccess(p)

Next == MainStep(1)

Spec == Init /\ [][Next]_vars

-----------------------------------------------------------------------------
(* SpecApi: the methods of one packager called directly, in any order *)

ApiVariant == PlainStr("UnityMono-BepInEx5")

ApiArgs ==
    [variant |-> ApiVariant, version |-> VersionDefault,
     namespace |-> NamespaceDefault, name |-> NameDefault,
     description |-> DescriptionDefault, website |-> WebsiteDefault,
     deps |-> DepsDefault, icon |-> None, readme |-> None]

\* the files a staging directory handed to create_package may hold
StageNames == {"manifest.json", "icon.png", "README.md", "a.dll", "plugins/x.dll"}

ManifestOf(a) ==
    create_manifest(a.version, a.name, a.description, a.website, a.deps, a.namespace)

InitApi ==
    \E th \in BOOLEAN :
      /\ outDirExists = TRUE
      /\ buildZips \in ZipStates({BuildZipName(Packager(ApiVariant, VersionDefault))})
      /\ srcFiles \in SUBSET {IconDefaultPath, ReadmeDefaultPath}
      /\ staging \in {EmptyFn} \cup
                     {Packager(ApiVariant, VersionDefault).temp_dir :> [n \in S |-> Old] :
                        S \in SUBSET StageNames}
      /\ thunderDirExists = (th \/ staging # EmptyFn)
      /\ archives = EmptyFn
      /\ mode = Idle("api")
      /\ pc = [p \in Procs |-> IF p = 1 THEN "idle" ELSE "off"]
      /\ args = Idle(ApiArgs)
      /\ self = Idle(Packager(ApiVariant, VersionDefault))
      /\ manifest = Idle(ManifestOf(ApiArgs))
      /\ loc = Idle(NoLocals)
      /\ callNo = Idle(0)
      /\ exit = Idle(-1)
      /\ log = Idle(<<>>)

NextApi ==
    \/ \E icon_path \in {None, IconDefaultPath}, readme_path \in {None, ReadmeDefaultPath} :
         CallPrepare(1, icon_path, readme_path)
    \/ CallCreate(1, self[1].temp_dir)
    \/ PrepareStep(1)
    \/ CreateStep(1)

SpecApi == InitApi /\ [][NextApi]_vars

-----------------------------------------------------------------------------
(* SpecManifest: create_manifest called on descriptions of every length *)

Twice(s) == s \o s

\* two long texts with different periods; both hold full stops
DescTexts ==
    <<Twice(Twice(Twice(Twice(Twice(Twice(Twice("a.b"))))))),
      Twice(Twice(Twice(Twice(Twice(Twice(Twice("..xy")))))))>>

\* the description made of the first n characters of text k
Desc(n, k) == SubSeq(DescTexts[k], 1, n)

Descriptions == {Desc(n, k) : n \in 0..MaxDescLen, k \in 1..2}

InitManifest ==
    \E d \in Descriptions :
      /\ outDirExists = TRUE
      /\ buildZips = EmptyFn
      /\ srcFiles = {}
      /\ staging = EmptyFn
      /\ thunderDirExists = FALSE
      /\ archives = EmptyFn
      /\ mode = Idle("api")
      /\ pc = [p \in Procs |-> IF p = 1 THEN "fresh" ELSE "off"]
      /\ args = Idle([ApiArgs EXCEPT !.description = d])
      /\ self = Idle(Packager(ApiVariant, VersionDefault))
      /\ manifest = Idle(NoManifest)
      /\ loc = Idle(NoLocals)
      /\ callNo = Idle(0)
      /\ exit = Idle(-1)
      /\ log = Idle(<<>>)

NextManifest == CallCreateManifest(1)

SpecManifest == InitManifest /\ [][NextManifest]_vars

-----------------------------------------------------------------------------
(* SpecConc: two runs of main side by side on one thunderstore directory,  *)
(* every input either run needs being in place                             *)

ConcArgs ==
    {[variant |-> PlainStr(c), version |-> ver,
      namespace |-> NamespaceDefault, name |-> NameDefault,
      description |-> DescriptionDefault, website |-> WebsiteDefault,
      deps |-> DepsDefault, icon |-> None, readme |-> None] :
        c \in VariantChoices, ver \in Versions}

InitConc ==
    \E a1 \in ConcArgs, a2 \in ConcArgs :
      /\ outDirExists = TRUE
      /\ buildZips = [n \in {BuildZipName(Packager(a.variant, a.version)) : a \in ConcArgs}
                        |-> [ok |-> TRUE, entries |-> {"a.dll", "b.dll"}]]
      /\ srcFiles = {IconDefaultPath, ReadmeDefaultPath}
      /\ staging = EmptyFn
      /\ thunderDirExists = TRUE
      /\ archives = EmptyFn
      /\ mode = Idle("main")
      /\ pc = Idle("main")
      /\ args = [p \in Procs |-> IF p = 1 THEN a1 ELSE a2]
      /\ self = Idle(NoSelf)
      /\ manifest = Idle(NoManifest)
      /\ loc = Idle(NoLocals)
      /\ callNo = Idle(0)
      /\ exit = Idle(-1)
      /\ log = Idle(<<>>)

NextConc == \E p \in Procs : MainStep(p)

SpecConc == InitConc /\ [][NextConc]_vars

-----------------------------------------------------------------------------
(* Vocabulary of the properties *)

Exited(p) == pc[p] = "exited"

\* the files of directory d (none when d does not exist)
FilesOf(d) == IF d \in DOMAIN staging THEN DOMAIN staging[d] ELSE {}

\* the order main runs the workflow steps in
Workflow ==
    <<"reset", "manifest", "icon", "readme", "extract", "verify", "archive", "cleanup">>

IsPrefix(s, t) == Len(s) <= Len(t) /\ SubSeq(t, 1, Len(s)) = s

\* the build archive run p looks up is absent from output_dir
ZipAbsent(p) == BuildZipName(self[p]) \notin DOMAIN buildZips

\* run p is back from the method named call, which returned normally
Returned(p, call) ==
    pc[p] = "idle" /\ loc[p].call = call /\ loc[p].raised = "none"

-----------------------------------------------------------------------------
(* C9 *)

\* C9: for a description longer than 250 characters create_manifest stores
\* exactly 250 characters, the first 247 of the input followed by "...";
\* a description of at most 250 characters is stored unchanged; the stored
\* description is never longer than 250 characters.
C9_DescriptionTruncation ==
    Returned(1, "manifest") =>
        LET d == args[1].description
            m == manifest[1].description
        IN  /\ Len(d) > 250 =>
                /\ Len(m) = 250
                /\ SubSeq(m, 1, 247) = SubSeq(d, 1, 247)
                /\ SubSeq(m, 248, 250) = "..."
            /\ Len(d) <= 250 => m = d
            /\ Len(m) <= 250

\* a description of 251 characters went through create_manifest
C9_Witness ==
    /\ Returned(1, "manifest")
    /\ Len(args[1].description) = 251
    /\ manifest[1].description # args[1].description

-----------------------------------------------------------------------------
(* C6 *)

\* the variant name a command line selects: the flag's value, or
\* IL2CPP-BepInEx6 when the flag is omitted
SelectedVariant(a) == a.variant.val

-----------------------------------------------------------------------------
(* C7 *)

\* C7: the final archive is written to
\* <namespace>-<package name>-<variant>-<version>.zip, namespace and package
\* name being the ones given to the run (BepInEx and MelonLoader_Loader by
\* default).
C7_ArchiveNamedByIdentity ==
    \A p \in Procs :
      (mode[p] = "main" /\ loc[p].output_path # None) =>
        loc[p].output_path =
          args[p].namespace \o "-" \o args[p].name \o "-" \o Str(args[p].variant)
            \o "-" \o args[p].version \o ".zip"

-----------------------------------------------------------------------------
(* C1 *)

\* the missing list create_package reported and left the process with
VerifyExit(p) == Exited(p) /\ loc[p].call = "create" /\ loc[p].missing # <<>>

\* C1, the state part: the archive is only written with the three required
\* files in the staging directory, and it then holds them; on a verification
\* failure the exit status is 1, no archive was written, and the reported list
\* holds exactly the required names absent from the staging directory, each
\* once.
C1_VerifyState ==
    /\ pc[1] = "create_archive" =>
         Range(REQUIRED_FILES) \subseteq FilesOf(loc[1].package_dir)
    /\ (loc[1].call = "create" /\ "archive" \in Range(log[1])) =>
         /\ loc[1].missing = <<>>
         /\ Range(REQUIRED_FILES) \subseteq DOMAIN archives[loc[1].output_path]
    /\ VerifyExit(1) =>
         /\ exit[1] = 1
         /\ "archive" \notin Range(log[1])
         /\ loc[1].output_path = None
         /\ Range(loc[1].missing) =
              Range(REQUIRED_FILES) \ FilesOf(loc[1].package_dir)
         /\ Len(loc[1].missing) = Cardinality(Range(loc[1].missing))

\* C1, the step part: the verification that ends the process leaves the
\* staging directories, their contents and the archives as they were.
C1_VerifyStep ==
    (pc[1] = "create_verify" /\ Exited(1)') =>
        /\ staging' = staging
        /\ archives' = archives
        /\ exit'[1] # 0

\* C1: create_package writes the final archive only if manifest.json, icon.png
\* and README.md all exist in the staging directory when it verifies; with any
\* of them missing it writes no archive, exits non-zero, leaves the staging
\* directory and its contents in place, and reports exactly the missing names.
C1_MissingFilesAbort == []C1_VerifyState /\ [][C1_VerifyStep]_vars

\* create_package ended the process over a staging directory that still holds
\* icon.png and a build file and lacks manifest.json and README.md
C1_Witness ==
    /\ VerifyExit(1)
    /\ loc[1].missing = <<"manifest.json", "README.md">>
    /\ FilesOf(loc[1].package_dir) = {"icon.png", "a.dll"}

-----------------------------------------------------------------------------
(* C2 *)

\* C2, the state part: while the archive is written and the staging directory
\* not yet removed, the archive holds exactly the files of the staging
\* directory, with their contents; a verification that finds nothing missing
\* does not end the process; once create_package has returned, its result is
\* the archive's path, the archive exists and the staging directory does not.
C2_ArchiveState ==
    /\ pc[1] = "create_cleanup" =>
         /\ loc[1].package_dir \in DOMAIN staging
         /\ loc[1].output_path \in DOMAIN archives
         /\ archives[loc[1].output_path] = staging[loc[1].package_dir]
    /\ (loc[1].call = "create" /\ "verify" \in Range(log[1]) /\ loc[1].missing = <<>>) =>
         /\ ~Exited(1)
         /\ loc[1].raised = "none"
    /\ Returned(1, "create") =>
         /\ loc[1].ret = OutputName(self[1])
         /\ loc[1].ret \in DOMAIN archives
         /\ loc[1].package_dir \notin DOMAIN staging
         /\ log[1] = <<"verify", "archive", "cleanup">>

\* C2, the step part: removing the staging directory leaves the archive as
\* written.
C2_CleanupStep == pc[1] = "create_cleanup" => archives' = archives

\* C2: over a staging directory holding manifest.json, icon.png, README.md and
\* any build files, create_package returns an archive whose entries are exactly
\* the files under the staging directory, and the staging directory is gone
\* when it returns.
C2_ArchiveEqualsStaging == []C2_ArchiveState /\ [][C2_CleanupStep]_vars

\* create_package returned an archive of the three required files and two
\* build files, one of them in a subdirectory
C2_Witness ==
    /\ Returned(1, "create")
    /\ DOMAIN archives[loc[1].ret] = StageNames
    /\ loc[1].package_dir \notin DOMAIN staging

-----------------------------------------------------------------------------
(* C3 *)

\* the files a prepare_package call stages, given its arguments and the inputs
StagedBy(p) ==
    {"manifest.json"}
      \cup (IF SrcExists(loc[p].icon_path) THEN {"icon.png"} ELSE {})
      \cup (IF SrcExists(loc[p].readme_path) THEN {"README.md"} ELSE {})
      \cup (IF Returned(p, "prepare") THEN buildZips[BuildZipName(self[p])].entries
            ELSE {})

\* the build archive run p looks up is there and is a zip file
ZipReadable(p) ==
    /\ BuildZipName(self[p]) \in DOMAIN buildZips
    /\ buildZips[BuildZipName(self[p])].ok

\* C3: whatever an earlier call (or an earlier run) left in the staging
\* directory, a prepare_package call fails only for a build archive that is
\* absent or unreadable, and once it is over the staging directory holds
\* exactly the files this call staged, each written by this call.
C3_ResetRemovesLeftovers ==
    /\ (loc[1].call = "prepare" /\ pc[1] \notin {"prepare_rmtree", "prepare_mkdir"}) =>
         /\ self[1].temp_dir \in DOMAIN staging
         /\ \A n \in FilesOf(self[1].temp_dir) : staging[self[1].temp_dir][n] = Tag(1)
    /\ (pc[1] = "idle" /\ loc[1].call = "prepare") =>
         /\ FilesOf(self[1].temp_dir) = StagedBy(1)
         /\ loc[1].raised = "none" <=> ZipReadable(1)
         /\ loc[1].raised = "FileNotFoundError" <=> ZipAbsent(1)
         /\ Returned(1, "prepare") => loc[1].ret = self[1].temp_dir

\* a second prepare_package call, given no icon and no readme, is over, and
\* the staging directory holds neither although both source files exist
C3_Witness ==
    /\ callNo[1] = 2
    /\ Returned(1, "prepare")
    /\ loc[1].icon_path = None /\ loc[1].readme_path = None
    /\ srcFiles = {IconDefaultPath, ReadmeDefaultPath}
    /\ FilesOf(self[1].temp_dir) = {"manifest.json", "a.dll", "b.dll"}

-----------------------------------------------------------------------------
(* C8 *)

\* prepare_package, called with no icon path and no readme path, is over and
\* the build archive was there and readable
C8_Case ==
    /\ pc[1] = "idle" /\ loc[1].call = "prepare"
    /\ loc[1].icon_path = None /\ loc[1].readme_path = None
    /\ ZipReadable(1)

\* C8 as stated: with no icon path and no readme path and the build archive
\* present, whatever its entries, prepare_package does not raise and the
\* staging directory holds neither icon.png nor README.md.
C8_NoIconNoReadme_Stated ==
    C8_Case =>
        /\ loc[1].raised = "none"
        /\ "icon.png" \notin FilesOf(self[1].temp_dir)
        /\ "README.md" \notin FilesOf(self[1].temp_dir)

\* C8 as amended: with no icon path and no readme path and the build archive
\* present and readable, prepare_package does not raise, and the staging
\* directory holds icon.png (README.md) exactly when the build archive has an
\* entry of that name.
C8_NoIconNoReadme ==
    C8_Case =>
        LET entries == buildZips[BuildZipName(self[1])].entries
        IN  /\ loc[1].raised = "none"
            /\ "icon.png" \in FilesOf(self[1].temp_dir) <=> "icon.png" \in entries
            /\ "README.md" \in FilesOf(self[1].temp_dir) <=> "README.md" \in entries

\* the call is over with both source files existing beside the script and a
\* build archive of two dll files: the staging directory holds neither
C8_Witness ==
    /\ C8_Case
    /\ srcFiles = {IconDefaultPath, ReadmeDefaultPath}
    /\ FilesOf(self[1].temp_dir) = {"manifest.json", "a.dll", "b.dll"}
    /\ callNo[1] = 1

-----------------------------------------------------------------------------
(* C4 *)

\* the run wrote the final archive and removed the staging directory
Packaged(p) ==
    /\ log[p] = Workflow
    /\ OutputName(self[p]) \in DOMAIN archives
    /\ self[p].temp_dir \notin DOMAIN staging

\* C4: a run of main ends in one outcome and repeats no step: the steps it has
\* executed are an initial part of the workflow, in order; a run that has not
\* ended can take its next step; the exit status is set exactly when the run
\* has ended and is 0 or 1; it is 0 exactly when the archive was produced and
\* the staging directory removed; it is 1 with no step executed when the output
\* directory is absent, 1 with nothing after the readme step when the build
\* archive is missing, 1 with nothing after the verification when required
\* files are missing, and 1 after any other error, which ends the run at the
\* step that raised it.
C4_OneTerminalOutcome ==
    /\ IsPrefix(log[1], Workflow)
    /\ ~Exited(1) => ENABLED MainStep(1)
    /\ Exited(1) <=> exit[1] # -1
    /\ exit[1] \in {-1, 0, 1}
    /\ Exited(1) =>
         /\ ~ENABLED MainStep(1)
         /\ exit[1] = 0 <=> Packaged(1)
         /\ exit[1] = 0 => (loc[1].raised = "none" /\ loc[1].missing = <<>>)
         /\ ~outDirExists =>
              (exit[1] = 1 /\ log[1] = <<>> /\ self[1] = NoSelf /\ callNo[1] = 0)
         /\ (outDirExists /\ ZipAbsent(1)) =>
              /\ exit[1] = 1
              /\ loc[1].handler = "not_found"
              /\ log[1] = SubSeq(Workflow, 1, 4)
         /\ loc[1].missing # <<>> =>
              (exit[1] = 1 /\ log[1] = SubSeq(Workflow, 1, 6) /\ archives = EmptyFn)
         /\ loc[1].raised \notin {"none", "FileNotFoundError"} =>
              /\ exit[1] = 1
              /\ loc[1].handler = "unexpected"
              /\ log[1] = SubSeq(Workflow, 1, 4)
              /\ archives = EmptyFn

\* a run ended with status 1 on an unreadable build archive, after the four
\* staging steps and before any later one
C4_Witness ==
    /\ Exited(1) /\ exit[1] = 1
    /\ loc[1].raised = "BadZipFile"
    /\ log[1] = <<"reset", "manifest", "icon", "readme">>

-----------------------------------------------------------------------------
(* C5 *)

\* C5: with the output directory there and the build archive absent, the run
\* ends with status 1 on the not-found condition, raised once the staging
\* directory is made and the manifest, and the icon and the readme when their
\* source files exist, are written; the staging directory then holds exactly
\* those files, written by this run, and no final archive exists.
C5_MissingArtifactLeavesStaging ==
    /\ (mode[1] = "main" /\ loc[1].raised = "FileNotFoundError") =>
         /\ loc[1].build_zip = BuildZipName(self[1])
         /\ log[1] = <<"reset", "manifest", "icon", "readme">>
    /\ (Exited(1) /\ outDirExists /\ ZipAbsent(1)) =>
         /\ exit[1] = 1
         /\ loc[1].raised = "FileNotFoundError"
         /\ self[1].temp_dir \in DOMAIN staging
         /\ FilesOf(self[1].temp_dir) = StagedBy(1)
         /\ \A n \in FilesOf(self[1].temp_dir) : staging[self[1].temp_dir][n] = Tag(1)
         /\ archives = EmptyFn
         /\ "archive" \notin Range(log[1])

\* a run ended on a missing build archive, leaving manifest, icon and readme
\* staged over what an earlier run had left
C5_Witness ==
    /\ Exited(1) /\ outDirExists /\ ZipAbsent(1)
    /\ buildZips # EmptyFn
    /\ FilesOf(self[1].temp_dir) = {"manifest.json", "icon.png", "README.md"}

-----------------------------------------------------------------------------
(* C10 *)

\* run p's staged files were all written by run p
OwnStaging(p) ==
    \A n \in FilesOf(self[p].temp_dir) : staging[self[p].temp_dir][n].by = p

\* the files a complete run stages
FullStage == {"manifest.json", "icon.png", "README.md", "a.dll", "b.dll"}

\* C10, for runs of different variants: their staging directories and output
\* archives are distinct, a run's staging directory only ever holds files that
\* run wrote, no step of either run fails, and a run that has ended has exit
\* status 0 and an archive of exactly the files it staged itself.
C10_DistinctVariantsIsolated ==
    \A p \in Procs : \A q \in Procs \ {p} :
      (args[p].variant # args[q].variant /\ self[p] # NoSelf) =>
        /\ self[q] # NoSelf =>
             /\ self[p].temp_dir # self[q].temp_dir
             /\ OutputName(self[p]) # OutputName(self[q])
        /\ OwnStaging(p)
        /\ loc[p].raised = "none" /\ loc[p].missing = <<>>
        /\ Exited(p) =>
             /\ exit[p] = 0
             /\ archives[OutputName(self[p])] = [n \in FullStage |-> [by |-> p, call |-> 1]]

\* two runs of the same variant: run 2 archived a file that run 1 had
\* extracted, and then removed the directory, so that run 1 found every
\* required file missing and ended with status 1
C10_Witness ==
    /\ args[1].variant = args[2].variant
    /\ Exited(1) /\ exit[1] = 1 /\ Len(loc[1].missing) = 3
    /\ Exited(2) /\ exit[2] = 0
    /\ \E n \in DOMAIN archives[OutputName(self[2])] :
         archives[OutputName(self[2])][n].by = 1

====
